---------------------------- MODULE Spec2Model ----------------------------
(***************************************************************************)
(* Model of the genome-to-brain compiler and the brain evaluator of        *)
(* hankotanks/simulating_emergent_behavior.                                *)
(*                                                                         *)
(*   src/src/agent/gene.rs   Gene, Genome, GeneParse                       *)
(*   src/src/agent/mod.rs    Agent::new, Agent::prune, Agent::process,     *)
(*                           Agent::process_node                           *)
(*   src/src/agent/mod.rs    Agent::reproduce, Agent::acted                *)
(*   src/src/simulation.rs   Sense::get, Simulation::new, Simulation::step *)
(*   src/src/tile/coord.rs   Coord::apply_offset, Offset::signum           *)
(*   src/src/tile/mod.rs     TileMap::put, TileMap::clear, TileMap::walk   *)
(*   src/src/universe.rs     Universe::update, Universe::topple, Kill      *)
(*                                                                         *)
(* The brain is a petgraph Graph<Node, bool>.  Its adjacency-list          *)
(* representation (node and edge arrays, per-node list heads, per-edge     *)
(* list links, swap_remove on removal) is modelled as it is, because the   *)
(* code steps detached walkers over it while removing edges, and because   *)
(* the order of the lists is the order in which the evaluator folds.       *)
(*                                                                         *)
(* Indices are 1-based here (the code's index i is i + 1), and END, the    *)
(* code's EdgeIndex::end(), is 0.  f32 values are modelled as exact        *)
(* rationals <<numerator, denominator>>.                                   *)
(***************************************************************************)
EXTENDS Integers, Sequences, FiniteSets, TLC

VARIABLES
    gene,       \* Gene(u8) handed to Gene::parse
    text,       \* text handed to Gene::from_string / Agent::from_string
    parsed,     \* result of Gene::parse
    decoded,    \* result of Gene::from_string
    gpc,        \* position of the gene-level run
    pc,         \* position of the agent-level run
    genome,     \* Agent.genome : Vec<Gene>
    brain,      \* Agent.brain  : Graph<Node, bool>
    conns,      \* the local `edges : Vec<GeneParse>` of Agent::new
    sense,      \* the Sense the last Agent::process was called with
    result,     \* what the last Agent::process returned
    eval,       \* observation of the last Agent::process (per Action node)
    orig,       \* the byte Display or Gene::mutate was applied to, -1 before
    child,      \* what the last Agent::reproduce drew and returned
    dimensions, \* dimensions of the TileMap / Universe
    tiles,      \* the HashMap of tiles, by coordinate
    wpc,        \* position of the world-level run
    agent,      \* fitness, nutrition and history of the Agent that acts
    coord,      \* the Coord handed to apply_offset / walk, then its result
    queue,      \* what a loop of the world layer has still to go through
    last        \* what the last world-level step did

vars == <<gene, text, parsed, decoded, gpc, pc, genome, brain, conns,
          sense, result, eval, orig, child,
          dimensions, tiles, wpc, agent, coord, queue, last>>

geneVars  == <<gene, parsed, decoded, gpc, orig>>
agentVars == <<pc, genome, brain, conns, sense, result, eval, child>>
worldVars == <<dimensions, tiles, wpc, agent, coord, queue, last>>

(***************************************************************************)
(* Bounds of the model.                                                    *)
(***************************************************************************)
MaxNodeGenes == 2      \* node genes of a genome of the pruning family
MaxConnGenes == 8      \* Connection genes of a genome of the pruning family
MaxEvalNodes == 3      \* node genes of a genome of the evaluation family
MaxEvalConns == 4      \* Connection genes of a genome of the evaluation family
MaxTextLen   == 9      \* length of a binary gene text
MaxMixedLen  == 3      \* length of a gene text over the wider alphabet
MaxReproLen  == 8      \* genes of a genome that reproduces
MaxAgents    == 2      \* settings.agents, and the agents of a world
GridWidth    == 2      \* settings.dimensions.width
GridHeight   == 2      \* settings.dimensions.height
MaxActs      == 23     \* calls of Agent::acted that are followed
MaxWidth     == 3      \* widest TileMap a tile is walked on
MaxHeight    == 3      \* highest TileMap a tile is walked on
MaxTiles     == 2      \* tiles of a TileMap a tile is walked on
MaxDistance  == 2      \* longest Offset handed to TileMap::walk
MaxCrowd     == 5      \* agents of a Universe whose food topples

None == "None"
END  == 0

(***************************************************************************)
(* f32 arithmetic, as exact rationals in lowest terms.                     *)
(***************************************************************************)
Abs(n) == IF n < 0 THEN -n ELSE n

RECURSIVE GCD(_, _)
GCD(a, b) == IF b = 0 THEN a ELSE GCD(b, a % b)

Reduce(n, d, g) == <<n \div g, d \div g>>

Rat(n, d) == Reduce(n, d, GCD(Abs(n), d))

RAdd(x, y)    == Rat(x[1] * y[2] + y[1] * x[2], x[2] * y[2])
RMul(x, y)    == Rat(x[1] * y[1], x[2] * y[2])
RDivInt(x, c) == Rat(x[1], x[2] * c)
RNeg(x)       == <<-x[1], x[2]>>
RGt(x, y)     == x[1] * y[2] > y[1] * x[2]
RZero         == <<0, 1>>
ROne          == <<1, 1>>

(***************************************************************************)
(* gene.rs : Gene                                                          *)
(***************************************************************************)
SenseType  == <<"Blocked", "Agent", "AgentDensity", "Food", "FoodDensity",
                "Direction">>
ActionType == <<"Move", "TurnLeft", "TurnRight", "Kill", "ProduceFood">>

Pow2(i) == 2 ^ i

\* data & (1 << index) != 0
get_bit_msb(data, index) == (data \div Pow2(7 - index)) % 2 = 1

get_bit(data, index) == (data \div Pow2(index)) % 2 = 1

\* 1u8.rotate_left(i)
rotate_left_1(i) == Pow2(i % 8)

RECURSIVE ls_bits_loop(_, _, _, _)
ls_bits_loop(data, bits, i, d) ==
    IF i >= bits THEN d
    ELSE ls_bits_loop(data, bits, i + 1,
                      IF get_bit(data, i) THEN (d + rotate_left_1(i)) % 256
                      ELSE d)

get_ls_bits_hi(data, bits) == ls_bits_loop(data, bits + 1, 0, 0)

get_ls_bits(data, bits) == ls_bits_loop(data, bits, 0, 0)

\* range = lo..hi (hi exclusive); data >> range.start
get_bit_range(data, lo, hi) == get_ls_bits(data \div Pow2(lo), hi - lo)

GP(tag, variant, bias, index, inverted) ==
    [tag |-> tag, variant |-> variant, bias |-> bias, index |-> index,
     inverted |-> inverted]

Connection(index, inverted) == GP("Connection", None, RZero, index, inverted)
Internal(bias)              == GP("Internal", None, bias, 0, FALSE)
Action(variant)             == GP("Action", variant, RZero, 0, FALSE)
Sense(variant)              == GP("Sense", variant, RZero, 0, FALSE)

\* Gene::parse, lines 29-34
parse_variant(g, index) ==
    IF get_bit(g, 5)
    THEN Action(ActionType[(index % Len(ActionType)) + 1])
    ELSE Sense(SenseType[(index % Len(SenseType)) + 1])

\* Gene::parse
parse(g) ==
    IF get_bit(g, 7)
    THEN Connection(get_bit_range(g, 0, 6), get_bit(g, 6))
    ELSE IF get_bit(g, 6)
    THEN Internal(Rat(get_bit_range(g, 0, 6), 32))
    ELSE parse_variant(g, get_bit_range(g, 0, 5))

(***************************************************************************)
(* u8::from_str_radix(data, 2), on a text given as a sequence of           *)
(* one-character strings.                                                  *)
(***************************************************************************)
Ok(v) == [ok |-> TRUE, val |-> v]
Err   == [ok |-> FALSE, val |-> 0]

RECURSIVE digits_loop(_, _, _)
digits_loop(digits, i, acc) ==
    IF i > Len(digits) THEN Ok(acc)
    ELSE IF digits[i] \notin {"0", "1"} THEN Err                \* InvalidDigit
    ELSE LET mul == acc * 2
             add == mul + (IF digits[i] = "1" THEN 1 ELSE 0) IN
         IF mul > 255 \/ add > 255 THEN Err                     \* PosOverflow
         ELSE digits_loop(digits, i + 1, add)

from_str_radix(data) ==
    IF Len(data) = 0 THEN Err                                   \* Empty
    ELSE IF data[1] \in {"+", "-"} /\ Len(data) = 1 THEN Err    \* InvalidDigit
    ELSE IF data[1] = "+" THEN digits_loop(Tail(data), 1, 0)
    ELSE digits_loop(data, 1, 0)

\* Gene::from_string
gene_or_error(r) == IF r.ok THEN Ok(r.val) ELSE Err

Gene_from_string(data) == gene_or_error(from_str_radix(data))

(***************************************************************************)
(* petgraph::graph::Graph<Node, bool> as the code uses it.                 *)
(*   node : [kind, variant, bias, next = <<first outgoing, first incoming>>]*)
(*   edge : [weight, node = <<source, target>>,                            *)
(*           next = <<next outgoing of source, next incoming of target>>]  *)
(* Direction k: 1 = Outgoing, 2 = Incoming.                                *)
(***************************************************************************)
EmptyGraph == [nodes |-> <<>>, edges |-> <<>>]

node_count(g) == Len(g.nodes)
edge_count(g) == Len(g.edges)

ValidEdge(g, e) == e \in 1..Len(g.edges)

\* Graph::add_node
add_node(g, p) ==
    [g EXCEPT !.nodes = Append(@, [kind |-> p.tag, variant |-> p.variant,
                                   bias |-> p.bias, next |-> <<END, END>>])]

\* Graph::add_edge (a new edge becomes the head of both lists)
add_edge(g, a, b, w) ==
    LET idx == Len(g.edges) + 1
        an  == g.nodes[a]
        bn  == g.nodes[b]
    IN  IF a = b
        THEN [nodes |-> [g.nodes EXCEPT ![a].next = <<idx, idx>>],
              edges |-> Append(g.edges, [weight |-> w, node |-> <<a, b>>,
                                         next |-> an.next])]
        ELSE [nodes |-> [g.nodes EXCEPT ![a].next[1] = idx,
                                        ![b].next[2] = idx],
              edges |-> Append(g.edges, [weight |-> w, node |-> <<a, b>>,
                                         next |-> <<an.next[1], bn.next[2]>>])]

\* the walk of Graph::change_edge_links over one list: the first edge whose
\* link is e gets the link new
RECURSIVE relink(_, _, _, _, _)
relink(es, cur, k, e, new) ==
    IF cur \notin 1..Len(es) THEN es
    ELSE IF es[cur].next[k] = e THEN [es EXCEPT ![cur].next[k] = new]
    ELSE relink(es, es[cur].next[k], k, e, new)

change_edge_links_dir(g, edge_node, e, edge_next, k) ==
    IF edge_node[k] \notin 1..Len(g.nodes) THEN g
    ELSE IF g.nodes[edge_node[k]].next[k] = e
    THEN [g EXCEPT !.nodes[edge_node[k]].next[k] = edge_next[k]]
    ELSE [g EXCEPT !.edges = relink(g.edges, g.nodes[edge_node[k]].next[k],
                                    k, e, edge_next[k])]

\* Graph::change_edge_links
change_edge_links(g, edge_node, e, edge_next) ==
    change_edge_links_dir(
        change_edge_links_dir(g, edge_node, e, edge_next, 1),
        edge_node, e, edge_next, 2)

\* Vec::swap_remove
swap_remove(s, i) ==
    LET n == Len(s) IN
    IF i = n THEN SubSeq(s, 1, n - 1)
    ELSE [SubSeq(s, 1, n - 1) EXCEPT ![i] = s[n]]

\* Graph::remove_edge_adjust_indices: the last edge takes the index e
relink_swapped(g1, e, swapped_e) ==
    IF e = swapped_e THEN g1
    ELSE change_edge_links(g1, g1.edges[e].node, swapped_e, <<e, e>>)

remove_edge_adjust_indices(g, e) ==
    relink_swapped([g EXCEPT !.edges = swap_remove(@, e)], e, Len(g.edges))

\* Graph::remove_edge
remove_edge(g, e) ==
    IF ~ValidEdge(g, e) THEN g
    ELSE remove_edge_adjust_indices(
             change_edge_links(g, g.edges[e].node, e, g.edges[e].next), e)

\* the incident edges of node a in direction k, in list order
RECURSIVE edge_list(_, _, _)
edge_list(g, cur, k) ==
    IF ~ValidEdge(g, cur) THEN <<>>
    ELSE <<cur>> \o edge_list(g, g.edges[cur].next[k], k)

edges_directed(g, a, k) == edge_list(g, g.nodes[a].next[k], k)

\* Graph::neighbors_directed(a, dir): one neighbour per incident edge
far_ends(g, es, k) == [i \in 1..Len(es) |-> g.edges[es[i]].node[3 - k]]

neighbors_directed(g, a, k) == far_ends(g, edges_directed(g, a, k), k)

\* Graph::find_edge(a, b): the first outgoing edge of a that ends in b
first_to(g, es, b) ==
    IF \E i \in 1..Len(es) : g.edges[es[i]].node[2] = b
    THEN es[CHOOSE i \in 1..Len(es) :
                /\ g.edges[es[i]].node[2] = b
                /\ \A j \in 1..(i - 1) : g.edges[es[j]].node[2] # b]
    ELSE END

find_edge(g, a, b) == first_to(g, edges_directed(g, a, 1), b)

\* Graph::remove_node: all incident edges go (Outgoing first), then the last
\* node takes the index a and its edges are renumbered
RECURSIVE remove_incident(_, _, _)
remove_incident(g, a, k) ==
    IF g.nodes[a].next[k] = END THEN g
    ELSE remove_incident(remove_edge(g, g.nodes[a].next[k]), a, k)

RECURSIVE renumber(_, _, _, _)
renumber(es, cur, k, new) ==
    IF cur \notin 1..Len(es) THEN es
    ELSE renumber([es EXCEPT ![cur].node[k] = new], es[cur].next[k], k, new)

renumber_moved(es, ns, a, moved) ==
    IF ~moved THEN [nodes |-> ns, edges |-> es]
    ELSE [nodes |-> ns,
          edges |-> renumber(renumber(es, ns[a].next[1], 1, a),
                             ns[a].next[2], 2, a)]

swap_remove_node(g1, a) ==
    renumber_moved(g1.edges, swap_remove(g1.nodes, a), a, a # Len(g1.nodes))

remove_node(g, a) ==
    IF a \notin 1..Len(g.nodes) THEN g
    ELSE swap_remove_node(remove_incident(remove_incident(g, a, 1), a, 2), a)

\* Graph::externals(Outgoing): the nodes without outgoing edge, by index
externals(g) == {i \in 1..Len(g.nodes) : g.nodes[i].next[1] = END}

Range(s) == {s[i] : i \in 1..Len(s)}

(***************************************************************************)
(* agent/mod.rs : Agent::new                                               *)
(***************************************************************************)
\* lines 97-105: one node per Sense/Action/Internal gene, Connection genes
\* collected in order
decode_node(g, p)  == IF p.tag = "Connection" THEN g ELSE add_node(g, p)
decode_edge(es, p) == IF p.tag = "Connection" THEN Append(es, p) ELSE es

RECURSIVE decode_loop(_, _, _, _)
decode_loop(gs, i, g, es) ==
    IF i > Len(gs) THEN [brain |-> g, edges |-> es]
    ELSE decode_loop(gs, i + 1, decode_node(g, parse(gs[i])),
                     decode_edge(es, parse(gs[i])))

\* line 110, reached once per pair of Connection genes
invalid_genome_any(g, es) == node_count(g) = 0 /\ Len(es) > 0

invalid_genome_no_nodes(g, es) == node_count(g) = 0

invalid_genome(g, es) == node_count(g) = 0 /\ Len(es) \div 2 > 0

\* lines 107-119
RECURSIVE wire_loop_flag_of_b(_, _, _)
wire_loop_flag_of_b(g, es, i) ==
    IF i >= Len(es) \div 2 THEN g
    ELSE wire_loop_flag_of_b(
             add_edge(g, (es[i * 2 + 1].index % node_count(g)) + 1,
                      (es[i * 2 + 2].index % node_count(g)) + 1,
                      es[i * 2 + 2].inverted),
             es, i + 1)

RECURSIVE wire_loop(_, _, _)
wire_loop(g, es, i) ==
    IF i >= Len(es) \div 2 THEN g
    ELSE wire_loop(add_edge(g, (es[i * 2 + 1].index % node_count(g)) + 1,
                            (es[i * 2 + 2].index % node_count(g)) + 1,
                            es[i * 2 + 1].inverted),
                   es, i + 1)

\* lines 124-132 and 135-143: a detached WalkNeighbors is stepped with
\* next_edge, and every edge it yields is removed.  The walker keeps the
\* link it read before the removal.
RECURSIVE walk_remove_from(_, _, _)
walk_remove_from(g, nxt, k) ==
    IF ~ValidEdge(g, nxt) THEN g
    ELSE walk_remove_from(remove_edge(g, nxt), g.edges[nxt].next[k], k)

walk_remove(g, a, k) == walk_remove_from(g, g.nodes[a].next[k], k)

\* lines 121-147
RECURSIVE prune_edges_loop(_, _)
prune_edges_loop(g, index) ==
    IF index > node_count(g) THEN g
    ELSE prune_edges_loop(
             CASE g.nodes[index].kind = "Sense"  -> walk_remove(g, index, 2)
               [] g.nodes[index].kind = "Action" -> walk_remove(g, index, 1)
               [] OTHER -> g,
             index + 1)

\* Agent::prune (lines 181-189): index and its not yet processed ancestors
RECURSIVE prune(_, _, _), prune_walk(_, _, _)
prune(g, index, processed) ==
    prune_walk(g, g.nodes[index].next[2], Append(processed, index))

prune_walk(g, cur, processed) ==
    IF ~ValidEdge(g, cur) THEN processed
    ELSE prune_walk(g, g.edges[cur].next[2],
                    IF g.edges[cur].node[1] \in Range(processed) THEN processed
                    ELSE prune(g, g.edges[cur].node[1], processed))

\* lines 158-163
RECURSIVE retain_loop(_, _, _)
retain_loop(g, index, retain) ==
    IF index > node_count(g) THEN retain
    ELSE retain_loop(g, index + 1,
                     IF g.nodes[index].kind = "Action"
                     THEN prune(g, index, retain) ELSE retain)

\* the closure of lines 165-174
keep_node_unretained(g, retain, n) ==
    g.nodes[n].kind = "Action" => Len(neighbors_directed(g, n, 2)) # 0

keep_node(g, retain, n) ==
    /\ n \in Range(retain)
    /\ g.nodes[n].kind = "Action" => Len(neighbors_directed(g, n, 2)) # 0

\* Graph::retain_nodes: the indices are visited from the last to the first
RECURSIVE retain_nodes(_, _, _)
retain_nodes(g, retain, index) ==
    IF index < 1 THEN g
    ELSE retain_nodes(IF keep_node(g, retain, index) THEN g
                      ELSE remove_node(g, index),
                      retain, index - 1)

(***************************************************************************)
(* agent/mod.rs : Agent::process and Agent::process_node                   *)
(*                                                                         *)
(* Option<f32> is [some, v].  Besides its value, process_node hands back   *)
(* what the walk did: the history (a &mut Vec in the code, never popped),  *)
(* the deepest nesting of calls reached, whether the nesting passed        *)
(* DepthCap, and one log entry per value folded into a node.               *)
(***************************************************************************)
\* Sense::get (simulation.rs); visible_tiles holds 0 (empty), 1 (agent) or
\* 2 (food) for each of the VISION_DISTANCE tiles ahead
VISION_DISTANCE == 6

tile_count(seen, kind) == Cardinality({i \in 1..Len(seen) : seen[i] = kind})

Sense_get(s, sense_type) ==
    CASE sense_type = "Blocked" ->
             IF s.visible_tiles[1] = 1 THEN ROne ELSE RZero
      [] sense_type = "Agent" ->
             IF s.visible_tiles[1] = 1 THEN ROne ELSE RZero
      [] sense_type = "AgentDensity" ->
             Rat(tile_count(s.visible_tiles, 1), VISION_DISTANCE)
      [] sense_type = "Food" ->
             IF s.visible_tiles[1] = 2 THEN ROne ELSE RZero
      [] sense_type = "FoodDensity" ->
             Rat(tile_count(s.visible_tiles, 2), VISION_DISTANCE)
      [] sense_type = "Direction" ->
             CASE s.direction = "Up"    -> RZero
               [] s.direction = "Right" -> Rat(33, 100)
               [] s.direction = "Down"  -> Rat(66, 100)
               [] s.direction = "Left"  -> ROne

Some(v) == [some |-> TRUE, v |-> v]
NoVal   == [some |-> FALSE, v |-> RZero]

\* nesting at which the model stops following the recursion
DepthCap(g) == node_count(g) + 2

Max(a, b) == IF a > b THEN a ELSE b

\* history.contains(&index)
contains_never(history, index) == FALSE

contains(history, index) == index \in Range(history)

\* lines 244-249: the flag of the edge from index to history.last()
edge_flag(g, k) ==
    IF k = END THEN [some |-> FALSE, v |-> FALSE]
    ELSE [some |-> TRUE, v |-> g.edges[k].weight]

parent_edge(g, index, history) ==
    IF history = <<>> THEN [some |-> FALSE, v |-> FALSE]
    ELSE edge_flag(g, find_edge(g, index, history[Len(history)]))

\* lines 255-258
apply_edge(t, edge) ==
    IF edge.some THEN (IF edge.v THEN t ELSE RNeg(t)) ELSE t

\* line 251, with the observation of the expansion
push(st, index) ==
    [st EXCEPT !.history = Append(@, index),
               !.path = Append(@, index),
               !.expanded = Append(@,
                   [n |-> index, depth |-> st.depth, parent |-> st.caller,
                    last |-> IF st.history = <<>> THEN 0
                             ELSE st.history[Len(st.history)]])]

\* line 259
accumulate(acc, t) == [c |-> acc.c + 1, sum |-> RAdd(acc.sum, t)]

logged(st, index, r, flag, raw, t) ==
    [st EXCEPT !.log = Append(@, [n |-> index, r |-> r, inverted |-> flag,
                                  raw |-> raw, used |-> t])]

\* lines 264-271
fold_result_sum(node, f) ==
    [val |-> IF f.acc.c = 0
             THEN (IF node.kind = "Internal" THEN Some(node.bias) ELSE NoVal)
             ELSE Some(RMul(f.acc.sum,
                            IF node.kind = "Internal" THEN node.bias ELSE ROne)),
     st |-> f.st]

fold_result(node, f) ==
    [val |-> IF f.acc.c = 0
             THEN (IF node.kind = "Internal" THEN Some(node.bias) ELSE NoVal)
             ELSE Some(RMul(RDivInt(f.acc.sum, f.acc.c),
                            IF node.kind = "Internal" THEN node.bias ELSE ROne)),
     st |-> f.st]

\* the observation of what the expansion of index returned; path is the
\* chain of calls of process_node that have not returned yet
finished(index, r) ==
    [val |-> r.val,
     st |-> [r.st EXCEPT !.done = Append(@, [n |-> index, val |-> r.val]),
                         !.path = SubSeq(@, 1, Len(@) - 1)]]

\* lines 235-241: what a node that is already in history answers
revisited_none(node) == NoVal

revisited(node) ==
    IF node.kind = "Internal" THEN Some(node.bias) ELSE NoVal

RECURSIVE process_node(_, _, _, _), fold_incoming(_, _, _, _, _, _, _, _),
          fold_value(_, _, _, _, _, _, _, _, _), fold_step(_, _, _, _, _, _, _, _)

\* lines 253-263: es are the incoming edges of index in list order, acc is
\* the fold's (c, sum); the callee runs one level deeper
fold_incoming(g, index, sns, es, i, edge, acc, st) ==
    IF i > Len(es) THEN [acc |-> acc, st |-> st]
    ELSE fold_step(g, index, sns, es, i, edge, acc,
                   process_node(g, g.edges[es[i]].node[1], sns,
                                [st EXCEPT !.depth = @ + 1, !.caller = index]))

fold_step(g, index, sns, es, i, edge, acc, res) ==
    IF res.val.some
    THEN fold_value(g, index, sns, es, i, edge, acc, res,
                    apply_edge(res.val.v, edge))
    ELSE fold_incoming(g, index, sns, es, i + 1, edge, acc,
                       [res.st EXCEPT !.depth = @ - 1])

fold_value(g, index, sns, es, i, edge, acc, res, t) ==
    fold_incoming(g, index, sns, es, i + 1, edge, accumulate(acc, t),
        logged([res.st EXCEPT !.depth = @ - 1], index,
               g.edges[es[i]].node[1], g.edges[es[i]].weight, res.val.v, t))

\* lines 212-273; st.depth is the nesting of this call
process_node(g, index, sns, st) ==
    IF st.depth > DepthCap(g)
    THEN [val |-> NoVal, st |-> [st EXCEPT !.capped = TRUE]]
    ELSE IF /\ contains(st.history, index)
            /\ g.nodes[index].kind = "Internal"
            /\ Len(neighbors_directed(g, index, 2)) = 0
    THEN [val |-> Some(g.nodes[index].bias),
          st |-> [st EXCEPT !.maxdepth = Max(@, st.depth),
                            !.hits = Append(@, [n |-> index,
                                onpath |-> index \in Range(st.path),
                                val |-> Some(g.nodes[index].bias)])]]
    ELSE IF g.nodes[index].kind = "Sense"
    THEN [val |-> Some(Sense_get(sns, g.nodes[index].variant)),
          st |-> [st EXCEPT !.maxdepth = Max(@, st.depth)]]
    ELSE IF contains(st.history, index)
    THEN [val |-> revisited(g.nodes[index]),
          st |-> [st EXCEPT !.maxdepth = Max(@, st.depth),
                            !.hits = Append(@, [n |-> index,
                                onpath |-> index \in Range(st.path),
                                val |-> revisited(g.nodes[index])])]]
    ELSE finished(index,
             fold_result(g.nodes[index],
                 fold_incoming(g, index, sns, edges_directed(g, index, 2), 1,
                               parent_edge(g, index, st.history),
                               [c |-> 0, sum |-> RZero],
                               push([st EXCEPT !.maxdepth = Max(@, st.depth)],
                                    index))))

\* the call of line 195: process_node(index, sense, &mut Vec::new())
observed(g, index, r) ==
    [index |-> index, variant |-> g.nodes[index].variant, weight |-> r.val,
     maxdepth |-> r.st.maxdepth, capped |-> r.st.capped, log |-> r.st.log,
     expanded |-> r.st.expanded, history |-> r.st.history,
     done |-> r.st.done, hits |-> r.st.hits]

resolve_root(g, index, sns) ==
    observed(g, index,
             process_node(g, index, sns,
                 [history |-> <<>>, depth |-> 1, maxdepth |-> 0,
                  capped |-> FALSE, log |-> <<>>, expanded |-> <<>>,
                  done |-> <<>>, hits |-> <<>>, caller |-> 0,
                  path |-> <<>>]))

\* line 198
replaces(weight, highest) == RGt(weight, highest)

\* lines 196-204
update_dominant(dominant, r) ==
    IF r.weight.some
    THEN (IF dominant.some /\ ~replaces(r.weight.v, dominant.weight)
          THEN dominant
          ELSE [some |-> TRUE, variant |-> r.variant, weight |-> r.weight.v])
    ELSE dominant

\* lines 192-207: dominant is [some, variant, weight]; obs collects what
\* each call of line 195 did
RECURSIVE process_loop(_, _, _, _, _), process_step(_, _, _, _, _, _)
process_loop(g, sns, index, dominant, obs) ==
    IF index > node_count(g) THEN [dominant |-> dominant, obs |-> obs]
    ELSE IF index \in externals(g) /\ g.nodes[index].kind = "Action"
    THEN process_step(g, sns, index, dominant, obs, resolve_root(g, index, sns))
    ELSE process_loop(g, sns, index + 1, dominant, obs)

process_step(g, sns, index, dominant, obs, r) ==
    process_loop(g, sns, index + 1, update_dominant(dominant, r),
                 Append(obs, r))

\* line 209
process_answer(p) ==
    [result |-> IF p.dominant.some THEN p.dominant.variant ELSE None,
     weight |-> IF p.dominant.some THEN Some(p.dominant.weight) ELSE NoVal,
     calls  |-> p.obs]

\* Agent::process
process(g, sns) ==
    process_answer(process_loop(g, sns, 1,
        [some |-> FALSE, variant |-> None, weight |-> RZero], <<>>))

(***************************************************************************)
(* agent/gene.rs : Genome::from_string, on a text given as a sequence of   *)
(* one-character strings                                                   *)
(***************************************************************************)
\* str::split(' ')
RECURSIVE split(_, _, _)
split(data, i, cur) ==
    IF i > Len(data) THEN <<cur>>
    ELSE IF data[i] = " " THEN <<cur>> \o split(data, i + 1, <<>>)
    ELSE split(data, i + 1, Append(cur, data[i]))

RECURSIVE push_ok(_, _, _)
push_ok(toks, i, gs) ==
    IF i > Len(toks) THEN gs
    ELSE LET r == Gene_from_string(toks[i]) IN
         push_ok(toks, i + 1, IF r.ok THEN Append(gs, r.val) ELSE gs)

Genome_from_string(data) == push_ok(split(data, 1, <<>>), 1, <<>>)

(***************************************************************************)
(* agent/gene.rs : impl Display for Gene, Gene::mutate, Genome::get,       *)
(* Genome::mutate; agent/mod.rs : Agent::reproduce.  The draws of          *)
(* thread_rng() are the parameters roll, b, i and picks.                   *)
(***************************************************************************)
digit(d) == IF d = 1 THEN "1" ELSE "0"

\* "{:b}": the binary digits of n, most significant first
RECURSIVE bin_digits_lsb_first(_)
bin_digits_lsb_first(n) ==
    IF n < 2 THEN <<digit(n)>>
    ELSE <<digit(n % 2)>> \o bin_digits_lsb_first(n \div 2)

RECURSIVE bin_digits(_)
bin_digits(n) ==
    IF n < 2 THEN <<digit(n)>>
    ELSE Append(bin_digits(n \div 2), digit(n % 2))

\* the "08" of "{:08b}"
RECURSIVE pad_left(_, _)
pad_left(s, width) ==
    IF Len(s) >= width THEN s ELSE pad_left(<<"0">> \o s, width)

\* impl Display for Gene
Gene_fmt(data) == pad_left(bin_digits(data), 8)

\* a ^ b on u8
RECURSIVE xor_loop(_, _, _)
xor_loop(a, b, i) ==
    IF i > 7 THEN 0
    ELSE (IF get_bit(a, i) # get_bit(b, i) THEN Pow2(i) ELSE 0)
         + xor_loop(a, b, i + 1)

\* Gene::mutate with gen_range(0..8) = k
Gene_mutate_set(data, k) == IF get_bit(data, k) THEN data ELSE data + Pow2(k)

Gene_mutate(data, k) == xor_loop(data, rotate_left_1(k), 0)

\* Genome::get_with_delim(genome, " ")
RECURSIVE with_delim(_, _)
with_delim(gs, i) ==
    IF i > Len(gs) THEN <<>>
    ELSE Gene_fmt(gs[i]) \o <<" ">> \o with_delim(gs, i + 1)

RECURSIVE trim_end(_)
trim_end(s) ==
    IF s # <<>> /\ s[Len(s)] = " " THEN trim_end(SubSeq(s, 1, Len(s) - 1))
    ELSE s

\* Genome::get
Genome_get(gs) == trim_end(with_delim(gs, 1))

\* Genome::MUTATION_FREQUENCY = 0.15
MUTATION_FREQUENCY == <<15, 100>>

\* gen_range(0..100) as f32 / 100f32 < MUTATION_FREQUENCY
structural(roll) == RGt(MUTATION_FREQUENCY, Rat(roll, 100))

\* (length as f32 * MUTATION_FREQUENCY) as usize: the cast truncates
point_count(length) ==
    (length * MUTATION_FREQUENCY[1]) \div MUTATION_FREQUENCY[2]

\* genome.push(Gene::new(b))
mutate_push(gs, b) == Append(gs, b)

\* genome.remove(i), i counted from 0
mutate_remove(gs, i) ==
    SubSeq(gs, 1, i) \o SubSeq(gs, i + 2, Len(gs))

\* genome[index].mutate() for each pick <<index, k>>
RECURSIVE mutate_points(_, _, _)
mutate_points(gs, picks, i) ==
    IF i > Len(picks) THEN gs
    ELSE mutate_points([gs EXCEPT ![picks[i][1] + 1] =
                            Gene_mutate(@, picks[i][2])],
                       picks, i + 1)

\* Agent::new as far as its Result: Ok or the Invalid Genome error
new_outcome(d) == IF invalid_genome(d.brain, d.edges) THEN "Err" ELSE "Ok"

\* what Agent::from_string makes of the text Genome::mutate returned
born(mutated, roll, branch, picks, data) ==
    [roll |-> roll, branch |-> branch, picks |-> picks, genome |-> mutated,
     text |-> data,
     result |-> new_outcome(decode_loop(Genome_from_string(data), 1,
                                        EmptyGraph, <<>>))]

NoChild ==
    [roll |-> 0, branch |-> "none", picks |-> <<>>, genome |-> <<>>,
     text |-> <<>>, result |-> "none"]

\* gen_range(0..0) panics
panicked(self_genome, roll) ==
    [roll |-> roll, branch |-> "panic", picks |-> <<>>,
     genome |-> self_genome, text |-> <<>>, result |-> "none"]

\* Agent::reproduce: Genome::mutate works on self.genome.clone(), self_genome
\* is what the agent holds when the call returns
reproduce_in_place(self_genome, mutated, roll, branch, picks) ==
    [self_genome |-> mutated,
     child |-> born(mutated, roll, branch, picks, Genome_get(mutated))]

reproduce(self_genome, mutated, roll, branch, picks) ==
    [self_genome |-> self_genome,
     child |-> born(mutated, roll, branch, picks, Genome_get(mutated))]

(***************************************************************************)
(* The inputs of the model.                                                *)
(***************************************************************************)
Bytes == 0..255

SeqsUpTo(S, n) == UNION {[1..m -> S] : m \in 0..n}

\* gene texts: every binary text up to MaxTextLen, every text over the
\* wider alphabet up to MaxMixedLen
GeneTexts ==
    SeqsUpTo({"0", "1"}, MaxTextLen) \cup
    SeqsUpTo({"0", "1", "+", "-", "2"}, MaxMixedLen)

\* Sense(Blocked), Action(Move), Internal(16/32)
PruneNodeGenes == {0, 32, 80}
\* Connection(0, false), Connection(1, false)
PruneConnGenes == {128, 129}

\* Sense(Blocked), Action(TurnLeft), Internal(16/32)
EvalNodeGenes == {0, 33, 80}
\* Connection(i, false) for i = 0, 1, 2 and Connection(1, true)
EvalConnGenes == {128, 129, 130, 193}

\* Sense(Blocked) -> Action(Move), Sense(Agent) -> Action(TurnLeft)
\* Internal(16/32) -> Action(Move), Sense(Blocked) -> Action(TurnLeft)
\* Action(TurnLeft) <- Sense(Agent), Action(Move) <- Sense(Blocked)
\* Internal <-> Internal -> Action(Move)
\* Sense(Blocked) -> Internal -> Action(Move) <- Sense(Blocked)
ExtraGenomes ==
    {<<0, 1, 32, 33, 128, 130, 129, 131>>,
     <<80, 0, 32, 33, 128, 130, 129, 131>>,
     <<33, 32, 1, 0, 130, 128, 131, 129>>,
     <<80, 80, 32, 128, 129, 129, 128, 128, 130>>,
     <<0, 80, 32, 128, 129, 129, 130, 128, 130>>,
     <<0, 80, 80, 32, 128, 129, 129, 131, 129, 130, 130, 131>>}

\* a genome of the model: its node genes, then its Connection genes
PruneGenome(gs) ==
    \E ns \in SeqsUpTo(PruneNodeGenes, MaxNodeGenes),
       cs \in SeqsUpTo(PruneConnGenes, MaxConnGenes) : gs = ns \o cs

EvalGenome(gs) ==
    \E ns \in SeqsUpTo(EvalNodeGenes, MaxEvalNodes),
       cs \in SeqsUpTo(EvalConnGenes, MaxEvalConns) : gs = ns \o cs

Tok(bits) == [i \in 1..Len(bits) |-> IF bits[i] = 1 THEN "1" ELSE "0"]

RECURSIVE Join(_, _)
Join(toks, i) ==
    IF i > Len(toks) THEN <<>>
    ELSE IF i = Len(toks) THEN toks[i]
    ELSE toks[i] \o <<" ">> \o Join(toks, i + 1)

\* "01000001 11100000 10000000 10000001"
TextA == Join(<<Tok(<<0,1,0,0,0,0,0,1>>), Tok(<<1,1,1,0,0,0,0,0>>),
                Tok(<<1,0,0,0,0,0,0,0>>), Tok(<<1,0,0,0,0,0,0,1>>)>>, 1)
\* "00000001 00100000 10000000 10000001"
TextB == Join(<<Tok(<<0,0,0,0,0,0,0,1>>), Tok(<<0,0,1,0,0,0,0,0>>),
                Tok(<<1,0,0,0,0,0,0,0>>), Tok(<<1,0,0,0,0,0,0,1>>)>>, 1)
\* "00000001 0010000x 00100000 10000000 10000010"
TextC == Join(<<Tok(<<0,0,0,0,0,0,0,1>>), <<"0","0","1","0","0","0","0","x">>,
                Tok(<<0,0,1,0,0,0,0,0>>), Tok(<<1,0,0,0,0,0,0,0>>),
                Tok(<<1,0,0,0,0,0,1,0>>)>>, 1)

GenomeTexts == {<<>>, TextA, TextB, TextC}

\* three values of the Sense struct: nothing in sight; an agent ahead and
\* three agents in sight; food ahead and three foods in sight
SenseInputs ==
    { [visible_tiles |-> <<0, 0, 0, 0, 0, 0>>, direction |-> "Up"],
      [visible_tiles |-> <<1, 1, 2, 1, 0, 0>>, direction |-> "Left"],
      [visible_tiles |-> <<2, 2, 0, 2, 1, 0>>, direction |-> "Down"] }

\* no world around the Gene or the Agent
NoTiles == [c \in {} |-> None]

WorldIdle ==
    /\ dimensions = <<0, 0>>
    /\ tiles = NoTiles
    /\ wpc = "idle"
    /\ agent = None
    /\ coord = <<0, 0>>
    /\ queue = <<>>
    /\ last = [op |-> "none"]

(***************************************************************************)
(* Gene level: Gene::from_string and Gene::parse.                          *)
(***************************************************************************)
InitGene ==
    /\ WorldIdle
    /\ \/ gpc = "parse" /\ gene \in Bytes /\ text = <<>>
       \/ gpc = "from_string" /\ gene = 0 /\ text \in GeneTexts
    /\ parsed = None
    /\ decoded = None
    /\ pc = "idle"
    /\ genome = <<>>
    /\ brain = EmptyGraph
    /\ conns = <<>>
    /\ sense = None
    /\ result = "Unset"
    /\ eval = <<>>
    /\ orig = -1
    /\ child = NoChild

GeneFromString ==
    /\ gpc = "from_string"
    /\ decoded' = Gene_from_string(text)
    /\ IF decoded'.ok
       THEN gene' = decoded'.val /\ gpc' = "decoded"
       ELSE gene' = gene /\ gpc' = "failed"
    /\ UNCHANGED <<text, parsed, orig>>
    /\ UNCHANGED <<agentVars, worldVars>>

GeneParse ==
    /\ gpc \in {"parse", "decoded"}
    /\ parsed' = parse(gene)
    /\ gpc' = "parsed"
    /\ UNCHANGED <<gene, text, decoded, orig>>
    /\ UNCHANGED <<agentVars, worldVars>>

\* impl Display for Gene: the text of the Gene, then handed to
\* Gene::from_string
GeneDisplay ==
    /\ gpc = "parse"
    /\ text' = Gene_fmt(gene)
    /\ orig' = gene
    /\ gpc' = "from_string"
    /\ UNCHANGED <<gene, parsed, decoded>>
    /\ UNCHANGED <<agentVars, worldVars>>

\* Gene::mutate with gen_range(0..8) = k
GeneMutateAt(k) ==
    /\ gpc = "parse"
    /\ orig' = gene
    /\ gene' = Gene_mutate(gene, k)
    /\ gpc' = "mutated"
    /\ UNCHANGED <<text, parsed, decoded>>
    /\ UNCHANGED <<agentVars, worldVars>>

GeneMutate == \E k \in 0..7 : GeneMutateAt(k)

NextGene == GeneFromString \/ GeneParse \/ GeneDisplay \/ GeneMutate

SpecGene == InitGene /\ [][NextGene]_vars

(***************************************************************************)
(* Agent level: Agent::from_string, Agent::new, Agent::process.            *)
(***************************************************************************)
Init ==
    /\ WorldIdle
    /\ gene = 0
    /\ parsed = None
    /\ decoded = None
    /\ gpc = "idle"
    /\ \/ pc = "from_string" /\ text \in GenomeTexts /\ genome = <<>>
       \/ pc = "new" /\ text = <<>> /\ PruneGenome(genome)
       \/ pc = "new" /\ text = <<>> /\ EvalGenome(genome)
       \/ pc = "new" /\ text = <<>> /\ genome \in ExtraGenomes
    /\ brain = EmptyGraph
    /\ conns = <<>>
    /\ sense = None
    /\ result = "Unset"
    /\ eval = <<>>
    /\ orig = -1
    /\ child = NoChild

\* Agent::from_string (lines 328-330), up to the call of Agent::new
FromString ==
    /\ pc = "from_string"
    /\ genome' = Genome_from_string(text)
    /\ pc' = "new"
    /\ UNCHANGED <<brain, conns, sense, result, eval, text, child>>
    /\ UNCHANGED <<geneVars, worldVars>>

Decoded(d) == brain' = d.brain /\ conns' = d.edges

\* Agent::new, lines 94-105
Decode ==
    /\ pc = "new"
    /\ Decoded(decode_loop(genome, 1, EmptyGraph, <<>>))
    /\ pc' = "wire"
    /\ UNCHANGED <<genome, sense, result, eval, text, child>>
    /\ UNCHANGED <<geneVars, worldVars>>

\* Agent::new, lines 107-119
Wire ==
    /\ pc = "wire"
    /\ \/ /\ invalid_genome(brain, conns)
          /\ pc' = "Err"
          /\ brain' = brain
       \/ /\ ~invalid_genome(brain, conns)
          /\ brain' = wire_loop(brain, conns, 0)
          /\ pc' = "prune_edges"
    /\ UNCHANGED <<genome, conns, sense, result, eval, text, child>>
    /\ UNCHANGED <<geneVars, worldVars>>

\* Agent::new, lines 121-147
PruneEdges ==
    /\ pc = "prune_edges"
    /\ brain' = prune_edges_loop(brain, 1)
    /\ pc' = "prune_nodes"
    /\ UNCHANGED <<genome, conns, sense, result, eval, text, child>>
    /\ UNCHANGED <<geneVars, worldVars>>

\* Agent::new, lines 149-178 (the brain; direction, fitness, history and
\* nutrition are world-layer state)
PruneNodes ==
    /\ pc = "prune_nodes"
    /\ brain' = retain_nodes(brain, retain_loop(brain, 1, <<>>),
                             node_count(brain))
    /\ pc' = "Ok"
    /\ UNCHANGED <<genome, conns, sense, result, eval, text, child>>
    /\ UNCHANGED <<geneVars, worldVars>>

Processed(p) ==
    /\ result' = p.result
    /\ eval' = [weight |-> p.weight, calls |-> p.calls]

\* Agent::process on the built agent
Process ==
    /\ pc = "Ok"
    /\ \E sns \in SenseInputs :
          /\ sense' = sns
          /\ Processed(process(brain, sns))
    /\ UNCHANGED <<pc, genome, brain, conns, text, child>>
    /\ UNCHANGED <<geneVars, worldVars>>

Next == FromString \/ Decode \/ Wire \/ PruneEdges \/ PruneNodes \/ Process

Spec == Init /\ [][Next]_vars

(***************************************************************************)
(* Reproduction: Agent::new, Agent::process and Agent::reproduce on the    *)
(* prefixes of one genome.                                                 *)
(***************************************************************************)
\* Sense(Blocked), Action(Move), Connection(0), Connection(1), Internal, ...
ReproPattern ==
    <<0, 32, 128, 129, 80, 130, 193, 33, 1, 129, 131, 64, 35, 197, 2, 132,
      34, 133, 198, 3>>

\* the last one has no node to wire
ReproGenomes ==
    {SubSeq(ReproPattern, 1, n) : n \in 0..MaxReproLen} \cup {<<128, 129>>}

\* outcomes of gen_range(0..100), on both sides of MUTATION_FREQUENCY
Rolls == {0, 14, 15, 99}

\* the draws of the point-mutation loop: <<gen_range(0..length), gen_range(0..8)>>
Picks(length) == [1..point_count(length) -> (0..(length - 1)) \X (0..7)]

InitRepro ==
    /\ WorldIdle
    /\ gene = 0
    /\ parsed = None
    /\ decoded = None
    /\ gpc = "idle"
    /\ orig = -1
    /\ pc = "new"
    /\ text = <<>>
    /\ genome \in ReproGenomes
    /\ brain = EmptyGraph
    /\ conns = <<>>
    /\ sense = None
    /\ result = "Unset"
    /\ eval = <<>>
    /\ child = NoChild

Reproduced(r) == genome' = r.self_genome /\ child' = r.child

\* Agent::reproduce (lines 275-280) with Genome::mutate (gene.rs 85-101);
\* a run is followed up to the agent's first reproduction and the calls of
\* Agent::process around it
Reproduce ==
    /\ pc = "Ok"
    /\ child = NoChild
    /\ \E roll \in Rolls :
          \/ /\ structural(roll)
             /\ \E b \in Bytes :
                   Reproduced(reproduce(genome, mutate_push(genome, b),
                                        roll, "push", <<>>))
             /\ pc' = pc
          \/ /\ structural(roll)
             /\ Len(genome) > 0
             /\ \E i \in 0..(Len(genome) - 1) :
                   Reproduced(reproduce(genome, mutate_remove(genome, i),
                                        roll, "remove", <<i>>))
             /\ pc' = pc
          \/ /\ structural(roll)
             /\ Len(genome) = 0
             /\ child' = panicked(genome, roll)
             /\ genome' = genome
             /\ pc' = "panicked"
          \/ /\ ~structural(roll)
             /\ \E picks \in Picks(Len(genome)) :
                   Reproduced(reproduce(genome,
                                        mutate_points(genome, picks, 1),
                                        roll, "point", picks))
             /\ pc' = pc
    /\ UNCHANGED <<brain, conns, sense, result, eval, text>>
    /\ UNCHANGED <<geneVars, worldVars>>

NextRepro ==
    Decode \/ Wire \/ PruneEdges \/ PruneNodes \/ Process \/ Reproduce

SpecRepro == InitRepro /\ [][NextRepro]_vars

(***************************************************************************)
(* World level: Simulation::new and the births of Simulation::step         *)
(* (simulation.rs), Agent::acted (agent/mod.rs), on the HashMap of the     *)
(* TileMap (tile/mod.rs).  A coordinate is <<x, y>>.                       *)
(***************************************************************************)
u5_MAX == 31
HISTORY_SIZE == 20
REPRODUCTION_THRESHOLD == 8

\* the core is not running
CoreIdle ==
    /\ gene = 0
    /\ text = <<>>
    /\ parsed = None
    /\ decoded = None
    /\ gpc = "idle"
    /\ orig = -1
    /\ pc = "idle"
    /\ genome = <<>>
    /\ brain = EmptyGraph
    /\ conns = <<>>
    /\ sense = None
    /\ result = "Unset"
    /\ eval = <<>>
    /\ child = NoChild

coreVars == <<text, geneVars, agentVars>>

Cells(dims) == (0..(dims[1] - 1)) \X (0..(dims[2] - 1))

\* TileMap::put (HashMap::insert) and TileMap::clear (HashMap::remove)
put(ts, c, tile) ==
    [k \in (DOMAIN ts) \cup {c} |-> IF k = c THEN tile ELSE ts[k]]

clear(ts, c) == [k \in (DOMAIN ts) \ {c} |-> ts[k]]

\* Agent::new, lines 149-156: the fields of a new Agent next to its brain
new_agent(gs, direction) ==
    [kind |-> "Agent", genome |-> gs, fitness |-> 0, direction |-> direction,
     history |-> <<>>, nutrition |-> u5_MAX]

\* Direction::default draws gen_range(0..3) of [Up, Down, Left, Right]; two
\* of its three outcomes are followed
DefaultDirections == {"Up", "Left"}

\* genomes Agent::from_prng can draw; the last one has no node to wire
SeedGenomes == {<<0, 32, 128, 129>>, <<32, 128, 129>>, <<128, 129>>}

\* Simulation::new, lines 51-70, one turn of the 'agent loop: on Err the
\* loop draws again, on Ok the 'occupied loop ends on a free coordinate
Seed ==
    /\ wpc = "seed"
    /\ \E gs \in SeedGenomes :
          IF new_outcome(decode_loop(gs, 1, EmptyGraph, <<>>)) = "Err"
          THEN /\ UNCHANGED <<tiles, wpc>>
               /\ last' = [op |-> "seed", result |-> "Err"]
          ELSE \E c \in Cells(dimensions) \ DOMAIN tiles,
                  d \in DefaultDirections :
                  /\ tiles' = put(tiles, c, new_agent(gs, d))
                  /\ wpc' = IF Cardinality(DOMAIN tiles) + 1 = MaxAgents
                            THEN "seeded" ELSE "seed"
                  /\ last' = [op |-> "seed", result |-> "Ok"]
    /\ UNCHANGED <<dimensions, agent, coord, queue>>
    /\ UNCHANGED coreVars

\* Simulation::agents, lines 298-312: the coordinates of the agents in the
\* order of their fitness (the order of equals is that of the HashMap)
agents(ts) ==
    {q \in [1..Cardinality(DOMAIN ts) -> DOMAIN ts] :
        /\ \A i, j \in DOMAIN q : i < j =>
              q[i] # q[j] /\ ts[q[i]].fitness <= ts[q[j]].fitness}

\* lines 119-122: the child is placed if Agent::reproduce returned Ok
accept(ts, child_coord, born_child, d) ==
    IF born_child.result = "Ok"
    THEN put(ts, child_coord,
             new_agent(Genome_from_string(born_child.text), d))
    ELSE ts

\* lines 106-114
reproduces(ts, c, child_coord, roll) ==
    roll < ts[c].fitness /\ child_coord \notin DOMAIN ts

\* lines 106-125, for the agent at c
birth(ts, c, child_coord, roll, born_child, d) ==
    IF reproduces(ts, c, child_coord, roll)
    THEN accept(put(ts, c, [ts[c] EXCEPT !.fitness = REPRODUCTION_THRESHOLD]),
                child_coord, born_child, d)
    ELSE ts

\* gen_range(REPRODUCTION_THRESHOLD..u5::MAX), both ends of it
BirthRolls == {REPRODUCTION_THRESHOLD, u5_MAX - 1}

Born(c, child_coord, roll, born_child, d) ==
    /\ tiles' = birth(tiles, c, child_coord, roll, born_child, d)
    /\ last' = [op |-> "birth", coord |-> c, child_coord |-> child_coord,
                reproduced |-> reproduces(tiles, c, child_coord, roll),
                result |-> born_child.result]
    /\ queue' = Tail(queue)
    /\ wpc' = IF Tail(queue) = <<>> THEN "born" ELSE "births"

\* Simulation::step, lines 105-126, one turn of the loop over agents();
\* child_coord is what Coord::sample_offset returned, any coordinate of the
\* grid; the child's genome is drawn as in Genome::mutate
Birth ==
    /\ wpc = "births"
    /\ queue # <<>>
    /\ \E child_coord \in Cells(dimensions), roll \in BirthRolls,
          d \in DefaultDirections :
          \/ \E b \in {32} :
                Born(Head(queue), child_coord, roll,
                     reproduce(tiles[Head(queue)].genome,
                               mutate_push(tiles[Head(queue)].genome, b),
                               0, "push", <<>>).child, d)
          \/ \E i \in 0..(Len(tiles[Head(queue)].genome) - 1) :
                Born(Head(queue), child_coord, roll,
                     reproduce(tiles[Head(queue)].genome,
                               mutate_remove(tiles[Head(queue)].genome, i),
                               0, "remove", <<i>>).child, d)
          \/ /\ point_count(Len(tiles[Head(queue)].genome)) = 0
             /\ Born(Head(queue), child_coord, roll,
                     reproduce(tiles[Head(queue)].genome,
                               tiles[Head(queue)].genome,
                               99, "point", <<>>).child, d)
    /\ UNCHANGED <<dimensions, agent, coord>>
    /\ UNCHANGED coreVars

\* Agent::acted, lines 282-297, with Agent::sate, lines 299-305
acted(a, action, successful) ==
    [a EXCEPT
        !.nutrition = IF action = "ProduceFood" /\ successful THEN u5_MAX
                      ELSE IF @ > 0 THEN @ - 1 ELSE @,
        !.fitness = IF action = "ProduceFood" /\ successful /\ @ < u5_MAX
                    THEN @ + 1 ELSE @,
        !.history = <<action>> \o (IF Len(@) > HISTORY_SIZE
                                   THEN SubSeq(@, 1, Len(@) - 1) ELSE @)]

\* the calls of acted an agent gets: one action over and over, or Move and
\* a successful ProduceFood in turn
ActScripts ==
    {[i \in 1..MaxActs |-> <<ActionType[k], b>>] :
        k \in 1..Len(ActionType), b \in BOOLEAN}
    \cup {[i \in 1..MaxActs |-> IF i % 2 = 1 THEN <<"Move", TRUE>>
                                 ELSE <<"ProduceFood", TRUE>>]}

Acted ==
    /\ wpc = "act"
    /\ queue # <<>>
    /\ agent' = acted(agent, Head(queue)[1], Head(queue)[2])
    /\ last' = [op |-> "acted", action |-> Head(queue)[1]]
    /\ queue' = Tail(queue)
    /\ UNCHANGED <<dimensions, tiles, wpc, coord>>
    /\ UNCHANGED coreVars

\* the agents a world holds when the births begin
WorldAgents ==
    {[new_agent(gs, d) EXCEPT !.fitness = f] :
        gs \in {<<0, 32, 128, 129>>, <<32, 128, 129>>},
        d \in {"Up"},
        f \in {REPRODUCTION_THRESHOLD, REPRODUCTION_THRESHOLD + 1}}

InitWorld ==
    /\ CoreIdle
    /\ dimensions = <<GridWidth, GridHeight>>
    /\ coord = <<0, 0>>
    /\ last = [op |-> "none"]
    /\ \/ /\ wpc = "seed"
          /\ tiles = NoTiles
          /\ queue = <<>>
          /\ agent = None
       \/ /\ wpc = "births"
          /\ \E cs \in SUBSET Cells(dimensions) :
                /\ Cardinality(cs) \in 1..MaxAgents
                /\ tiles \in [cs -> WorldAgents]
          /\ queue \in agents(tiles)
          /\ agent = None
       \/ /\ wpc = "act"
          /\ tiles = NoTiles
          /\ queue \in ActScripts
          /\ agent = new_agent(<<0, 32, 128, 129>>, "Up")

NextWorld == Seed \/ Birth \/ Acted

SpecWorld == InitWorld /\ [][NextWorld]_vars

(***************************************************************************)
(* tile/coord.rs and tile/mod.rs : Coord::apply_offset, Offset::signum,    *)
(* TileMap::walk.  An Offset is [axis, d].  A usize or isize value is held *)
(* as the signed integer of its 64-bit pattern: the cast `x as usize`      *)
(* keeps the pattern, and a difference taken modulo 2^64 is the difference *)
(* of the patterns as long as it stays between 0 and 2^63, which it does   *)
(* for the coordinates and distances here.                                 *)
(***************************************************************************)
\* coord.rs lines 18-23 and 26-31: v is self.x or self.y, width is
\* dimensions.width in both arms of the match
offset_axis(v, d, width) ==
    IF v + d >= 0 THEN (v + d) % width ELSE width - (v + d)

\* Coord::apply_offset
apply_offset(c, offset, dims) ==
    IF offset.axis = "X"
    THEN <<offset_axis(c[1], offset.d, dims[1]), c[2]>>
    ELSE <<c[1], offset_axis(c[2], offset.d, dims[1])>>

\* isize::signum
signum(d) == IF d > 0 THEN 1 ELSE IF d < 0 THEN -1 ELSE 0

\* TileMap::walk_by_tiles with Offset::signum: one step is applied, the
\* Offset loses it, and the walk ends on a blank Offset or an occupied Coord
RECURSIVE walk_by_tiles(_, _, _, _)
walk_by_tiles(ts, c, offset, dims) ==
    IF offset.d = signum(offset.d)
       \/ apply_offset(c, [offset EXCEPT !.d = signum(@)], dims) \in DOMAIN ts
    THEN apply_offset(c, [offset EXCEPT !.d = signum(@)], dims)
    ELSE walk_by_tiles(ts,
             apply_offset(c, [offset EXCEPT !.d = signum(@)], dims),
             [offset EXCEPT !.d = @ - signum(@)], dims)

\* TileMap::walk: the tile is taken out, walked, and put at the Coord the
\* walk ended on
walk(ts, c, offset, dims) ==
    put(clear(ts, c), walk_by_tiles(clear(ts, c), c, offset, dims), ts[c])

Offsets(n) == [axis : {"X", "Y"}, d : (-n)..n]

\* the tiles of a TileMap: a new agent or one unit of food
TileInputs ==
    {new_agent(<<0, 32, 128, 129>>, "Up"), [kind |-> "Food", amount |-> 1]}

InitTile ==
    /\ CoreIdle
    /\ wpc = "tile"
    /\ dimensions \in (1..MaxWidth) \X (1..MaxHeight)
    /\ \E cs \in SUBSET Cells(dimensions) :
          /\ Cardinality(cs) <= MaxTiles
          /\ tiles \in [cs -> TileInputs]
    /\ coord = <<0, 0>>
    /\ agent = None
    /\ queue = <<>>
    /\ last = [op |-> "none"]

\* Coord::apply_offset on a Coord of the grid, with a distance the
\* directions and Offset::signum produce
ApplyOffset ==
    /\ wpc = "tile"
    /\ \E c \in Cells(dimensions), offset \in Offsets(1) :
          /\ coord' = apply_offset(c, offset, dimensions)
          /\ last' = [op |-> "apply_offset", from |-> c, offset |-> offset]
    /\ wpc' = "applied"
    /\ UNCHANGED <<dimensions, tiles, agent, queue>>
    /\ UNCHANGED coreVars

\* TileMap::walk on a Coord that holds a tile
Walk ==
    /\ wpc = "tile"
    /\ \E c \in DOMAIN tiles, offset \in Offsets(MaxDistance) :
          /\ tiles' = walk(tiles, c, offset, dimensions)
          /\ coord' = walk_by_tiles(clear(tiles, c), c, offset, dimensions)
          /\ last' = [op |-> "walk", from |-> c, offset |-> offset,
                      before |-> tiles]
    /\ wpc' = "walked"
    /\ UNCHANGED <<dimensions, agent, queue>>
    /\ UNCHANGED coreVars

NextTile == ApplyOffset \/ Walk

SpecTile == InitTile /\ [][NextTile]_vars

(***************************************************************************)
(* universe.rs : the Kill of Universe::perform_action and the food         *)
(* diffusion at the start of Universe::update.  A tile of the HashMap is   *)
(* its TileContents: Food(amount) or Agent (fitness and facing).           *)
(***************************************************************************)
DIFFUSION_LIMIT == 4
u8_MAX == 255

\* Coordinate::offset, lines 24-42, on one axis
offset(v, d, size) ==
    IF v + d > 0 THEN (v + d) % size
    ELSE IF v + d < 0 THEN size + (v + d) ELSE v + d

\* Coordinate::neighbors with CoordinateOffset::from_facing
facing_coord(c, facing, dims) ==
    CASE facing = "Up"    -> <<c[1], offset(c[2], -1, dims[2])>>
      [] facing = "Down"  -> <<c[1], offset(c[2], 1, dims[2])>>
      [] facing = "Left"  -> <<offset(c[1], -1, dims[1]), c[2]>>
      [] facing = "Right" -> <<offset(c[1], 1, dims[1]), c[2]>>

neighbors(c, dims) ==
    <<facing_coord(c, "Up", dims), facing_coord(c, "Down", dims),
      facing_coord(c, "Left", dims), facing_coord(c, "Right", dims)>>

Food(amount) == [kind |-> "Food", amount |-> amount]

\* Universe::food_at: Some(amount) on food, Some(0) on no tile, else None
food_at(ts, c) ==
    IF c \notin DOMAIN ts THEN [some |-> TRUE, v |-> 0]
    ELSE IF ts[c].kind = "Food" THEN [some |-> TRUE, v |-> ts[c].amount]
    ELSE [some |-> FALSE, v |-> 0]

\* Universe::increment_food_at; the map is left as it is where the code
\* returns None
increment_food_at(ts, c) ==
    IF food_at(ts, c).some /\ food_at(ts, c).v < u8_MAX
    THEN put(ts, c, Food(food_at(ts, c).v + 1))
    ELSE ts

\* Universe::decrement_food_at
decrement_food_at(ts, c) ==
    IF ~food_at(ts, c).some THEN ts
    ELSE IF food_at(ts, c).v > 1
    THEN put(clear(ts, c), c, Food(food_at(ts, c).v - 1))
    ELSE clear(ts, c)

\* the one element of a set of one element; a map is worked out once
\* before the next step is taken on it
Only(S) == CHOOSE r \in S : TRUE

\* Universe::topple, lines 451-461: ns are the neighbours, count is
\* neighbor_count, which is then taken off the tile itself
RECURSIVE topple_loop(_, _, _, _, _)
topple_loop(ts, c, ns, i, count) ==
    IF i <= Len(ns)
    THEN Only({topple_loop(t, c, ns, i + 1,
                           IF t # ts THEN count + 1 ELSE count) :
                  t \in {increment_food_at(ts, ns[i])}})
    ELSE IF count > 0
    THEN Only({topple_loop(t, c, ns, i, count - 1) :
                  t \in {decrement_food_at(ts, c)}})
    ELSE ts

\* Universe::topple
topple(ts, c, dims) ==
    IF ts[c].kind = "Food" /\ ts[c].amount > DIFFUSION_LIMIT
    THEN topple_loop(ts, c, neighbors(c, dims), 1, 0)
    ELSE ts

\* lines 229-231: order is self.coordinates(), the keys of the HashMap
RECURSIVE sweep(_, _, _, _)
sweep(ts, order, i, dims) ==
    IF i > Len(order) THEN ts
    ELSE Only({sweep(t, order, i + 1, dims) :
                  t \in {topple(ts, order[i], dims)}})

\* lines 233-240
invalid(ts) ==
    \E c \in DOMAIN ts :
        ts[c].kind = "Food" /\ ts[c].amount > DIFFUSION_LIMIT

\* the keys of the HashMap come in an order of its own: row by row here,
\* from the first or from the last
RECURSIVE row_major(_, _, _)
row_major(keys, dims, i) ==
    IF i >= dims[1] * dims[2] THEN <<>>
    ELSE (IF <<i % dims[1], i \div dims[1]>> \in keys
          THEN <<(<<i % dims[1], i \div dims[1]>>)>> ELSE <<>>)
         \o row_major(keys, dims, i + 1)

Reversed(q) == [i \in 1..Len(q) |-> q[Len(q) + 1 - i]]

coordinates(ts, dims) ==
    {row_major(DOMAIN ts, dims, 0), Reversed(row_major(DOMAIN ts, dims, 0))}

\* Universe::update, lines 228-245: one turn of the 'topple loop; turn
\* tells a turn from the one before it
Topple ==
    /\ wpc = "topple"
    /\ \E order \in coordinates(tiles, dimensions) :
          /\ tiles' = sweep(tiles, order, 1, dimensions)
          /\ wpc' = IF invalid(sweep(tiles, order, 1, dimensions))
                    THEN "topple" ELSE "toppled"
    /\ last' = [op |-> "topple",
                turn |-> IF last.op = "topple" THEN 1 - last.turn ELSE 0]
    /\ UNCHANGED <<dimensions, agent, coord, queue>>
    /\ UNCHANGED coreVars

\* Universe::perform_action, lines 364-380: the agent at c kills the agent
\* it faces, which leaves its fitness as food; the next Universe::update
\* begins with the food diffusion
Kill ==
    /\ wpc = "perform_action"
    /\ \E c \in DOMAIN tiles :
          /\ tiles[c].kind = "Agent"
          /\ coord' = facing_coord(c, tiles[c].facing, dimensions)
          /\ IF coord' \in DOMAIN tiles /\ tiles[coord'].kind = "Agent"
             THEN tiles' = put(tiles, coord', Food(tiles[coord'].fitness))
             ELSE tiles' = tiles
          /\ last' = [op |-> "Kill", coord |-> c]
    /\ wpc' = "topple"
    /\ UNCHANGED <<dimensions, agent, queue>>
    /\ UNCHANGED coreVars

\* agents that have eaten as often as each other and face the same way
Crowds(dims) ==
    UNION {[cs -> {[kind |-> "Agent", fitness |-> f, facing |-> d]}] :
              cs \in {x \in SUBSET Cells(dims) :
                         Cardinality(x) \in 1..MaxCrowd},
              f \in {1, DIFFUSION_LIMIT + 1, DIFFUSION_LIMIT + 2},
              d \in {"Up", "Left"}}

InitUniverse ==
    /\ CoreIdle
    /\ wpc = "perform_action"
    /\ dimensions = <<MaxWidth, MaxHeight>>
    /\ tiles \in Crowds(dimensions)
    /\ coord = <<0, 0>>
    /\ agent = None
    /\ queue = <<>>
    /\ last = [op |-> "none"]

NextUniverse == Kill \/ Topple

SpecUniverse == InitUniverse /\ [][NextUniverse]_vars

\* the 'topple loop is a loop of the running program: it takes its next
\* turn until it breaks
FairUniverse == SpecUniverse /\ WF_vars(Topple)

(***************************************************************************)
(* Vocabulary of the properties.  Edges are counted on the edge array, not *)
(* on the lists the code walks.                                            *)
(***************************************************************************)
Built     == pc = "Ok"
Evaluated == pc = "Ok" /\ result # "Unset"

Nodes(g)       == 1..Len(g.nodes)
InEdges(g, n)  == {e \in 1..Len(g.edges) : g.edges[e].node[2] = n}
OutEdges(g, n) == {e \in 1..Len(g.edges) : g.edges[e].node[1] = n}
IsKind(g, n, kind) == g.nodes[n].kind = kind
ActionNodes(g) == {n \in Nodes(g) : IsKind(g, n, "Action")}

NodeGeneCount(gs) == Cardinality({i \in 1..Len(gs) : gs[i] < 128})
ConnGeneCount(gs) == Cardinality({i \in 1..Len(gs) : gs[i] >= 128})

\* C1: after Agent::new every Sense node has no incoming edge, every Action
\* node has no outgoing edge, and every Action node left in the graph has at
\* least one incoming edge.
C1_PruningInvariant ==
    Built =>
        \A n \in Nodes(brain) :
            /\ IsKind(brain, n, "Sense") => InEdges(brain, n) = {}
            /\ IsKind(brain, n, "Action") =>
                   OutEdges(brain, n) = {} /\ InEdges(brain, n) # {}

\* the weight process_node resolves for Action node n under the sense input
ResolvedWeight(g, n, sns) == resolve_root(g, n, sns).weight

DefinedActions(g, sns) ==
    {n \in ActionNodes(g) : ResolvedWeight(g, n, sns).some}

\* the first (by index) of the Action nodes of highest defined weight
IsDominant(g, sns, n) ==
    /\ n \in DefinedActions(g, sns)
    /\ \A m \in DefinedActions(g, sns) :
          /\ ~RGt(ResolvedWeight(g, m, sns).v, ResolvedWeight(g, n, sns).v)
          /\ m < n => RGt(ResolvedWeight(g, n, sns).v,
                          ResolvedWeight(g, m, sns).v)

\* C2: Agent::process returns the Action of highest resolved weight among
\* all Action nodes that yield a defined weight, the first of them on a tie,
\* and None when no Action node yields a defined weight.
C2_ReturnsDominant ==
    Evaluated =>
        /\ DefinedActions(brain, sense) = {} => result = None
        /\ \A n \in ActionNodes(brain) :
               IsDominant(brain, sense, n) => result = brain.nodes[n].variant

\* C3: a value folded into node n from its incoming neighbour r is negated
\* exactly when the edge r -> n it came over is inverted, for every node
\* that is expanded, the root Action node included.
C3_InvertedNegates ==
    Evaluated =>
        \A i \in 1..Len(eval.calls) :
            \A j \in 1..Len(eval.calls[i].log) :
                eval.calls[i].log[j].used =
                    IF eval.calls[i].log[j].inverted
                    THEN RNeg(eval.calls[i].log[j].raw)
                    ELSE eval.calls[i].log[j].raw

\* C4 as stated: process ends on its own for every built graph, cyclic ones
\* included, and no call of process_node is nested deeper than the number
\* of nodes of the graph.
C4_DepthWithinNodeCount ==
    Evaluated =>
        \A i \in 1..Len(eval.calls) :
            /\ ~eval.calls[i].capped
            /\ eval.calls[i].maxdepth <= node_count(brain)

\* C4: process ends on its own for every built graph, cyclic ones
\* included, and no call of process_node is nested deeper than the number
\* of nodes of the graph plus one (the call that meets the cycle guard).
C4_DepthWithinNodeCountPlusOne ==
    Evaluated =>
        \A i \in 1..Len(eval.calls) :
            /\ ~eval.calls[i].capped
            /\ eval.calls[i].maxdepth <= node_count(brain) + 1

\* an evaluated graph with a cycle among Internal nodes (two distinct ones
\* here) whose guard was met at the deepest nesting possible
C4_Witness ==
    /\ Evaluated
    /\ \E a \in Nodes(brain), b \in Nodes(brain) :
          /\ a # b
          /\ IsKind(brain, a, "Internal") /\ IsKind(brain, b, "Internal")
          /\ \E e \in OutEdges(brain, a) : brain.edges[e].node[2] = b
          /\ \E e \in OutEdges(brain, b) : brain.edges[e].node[2] = a
    /\ \E i \in 1..Len(eval.calls) :
          /\ ~eval.calls[i].capped
          /\ eval.calls[i].maxdepth = node_count(brain) + 1

\* the condition of the 'Invalid Genome' error, read off the genome's bytes
NoNodesButAPair(gs) == NodeGeneCount(gs) = 0 /\ ConnGeneCount(gs) >= 2

\* C5: Agent::new returns the 'Invalid Genome' error exactly for the genomes
\* with zero Sense/Action/Internal genes and at least two Connection genes;
\* on every other genome construction goes past the wiring and on to Ok.
C5_InvalidGenomeExactly ==
    /\ pc = "Err" => NoNodesButAPair(genome)
    /\ pc \in {"prune_edges", "prune_nodes", "Ok"} => ~NoNodesButAPair(genome)

\* zero node genes and exactly one Connection gene: construction succeeds
C5_Witness ==
    /\ pc = "Ok"
    /\ NodeGeneCount(genome) = 0
    /\ ConnGeneCount(genome) = 1

\* the sources of the edges that end in S
BackStep(g, S) == {g.edges[e].node[1] : e \in UNION {InEdges(g, n) : n \in S}}

\* the nodes reached from S by walking incoming edges backward
RECURSIVE BackReach(_, _)
BackReach(g, S) ==
    IF BackStep(g, S) \subseteq S THEN S
    ELSE BackReach(g, S \cup BackStep(g, S))

\* C6: after Agent::new succeeds every remaining node has a directed path
\* to an Action node that remains, i.e. is reached backward from one.
C6_AllReachAnAction ==
    Built => Nodes(brain) \subseteq BackReach(brain, ActionNodes(brain))

\* some nodes were removed and at least two remain
C6_Witness ==
    /\ Built
    /\ node_count(brain) >= 2
    /\ node_count(brain) < NodeGeneCount(genome)
    /\ \E n \in Nodes(brain) : ~IsKind(brain, n, "Action")

SenseToAction(g, sv, av) ==
    /\ node_count(g) = 2
    /\ \E s \in Nodes(g), a \in Nodes(g) :
          /\ IsKind(g, s, "Sense") /\ g.nodes[s].variant = sv
          /\ IsKind(g, a, "Action") /\ g.nodes[a].variant = av
          /\ edge_count(g) = 1
          /\ g.edges[1].node = <<s, a>>
          /\ g.edges[1].weight = FALSE

\* what the scenario says of the graph built from text t, and of its
\* evaluation when the Sense kind reads 0.7
Scenario(t) ==
    /\ (text = t /\ Built) => SenseToAction(brain, SenseType[2], ActionType[1])
    /\ (text = t /\ Evaluated /\ Sense_get(sense, SenseType[2]) = <<7, 10>>) =>
           /\ result = ActionType[1]
           /\ eval.weight = Some(<<7, 10>>)

\* C7 as stated: the text "01000001 11100000 10000000 10000001" builds the
\* two-node graph Sense[1] -> Action[0] with one non-inverted edge, and
\* evaluates to that Action with weight 0.7 when the Sense reads 0.7.
C7_ScenarioAsStated == Scenario(TextA)

\* C7: the text "00000001 00100000 10000000 10000001" builds the two-node
\* graph Sense[1] -> Action[0] with one non-inverted edge; evaluating it
\* returns that Action, with the reading of the Sense kind as its weight,
\* whenever the reading is positive or zero (Sense::get reads 0 or 1 for
\* this kind); the text "01000001 11100000 10000000 10000001" builds an
\* empty graph and evaluates to None.
C7_ScenarioOfSenseActionText ==
    /\ (text = TextB /\ Built) =>
           SenseToAction(brain, SenseType[2], ActionType[1])
    /\ (text = TextB /\ Evaluated) =>
           /\ result = ActionType[1]
           /\ eval.weight = Some(Sense_get(sense, SenseType[2]))
           /\ eval.weight.v \in {RZero, ROne}
    /\ (text = TextA /\ Built) => node_count(brain) = 0
    /\ (text = TextA /\ Evaluated) => result = None

\* the two-gene text evaluated with an agent on the tile ahead
C7_Witness ==
    /\ text = TextB
    /\ Evaluated
    /\ sense.visible_tiles[1] = 1
    /\ result = "Move"
    /\ eval.weight = Some(ROne)

\* the layout of a gene byte, by arithmetic on its value
Layout(b) ==
    IF b >= 128 THEN Connection(b % 64, (b \div 64) % 2 = 1)
    ELSE IF b >= 64 THEN Internal(Rat(b % 64, 32))
    ELSE IF b >= 32
    THEN Action(<<"Move", "TurnLeft", "TurnRight", "Kill",
                  "ProduceFood">>[((b % 32) % 5) + 1])
    ELSE Sense(<<"Blocked", "Agent", "AgentDensity", "Food", "FoodDensity",
                 "Direction">>[((b % 32) % 6) + 1])

\* C8: Gene::parse yields, for each of the 256 byte values, what the
\* priority layout says: bit 7 Connection(bits 0-5, bit 6), else bit 6
\* Internal(bits 0-5 / 32), else bit 5 the Action at (bits 0-4) mod 5, else
\* the Sense at (bits 0-4) mod 6.
C8_ParseLayout ==
    /\ gpc = "parsed" => parsed = Layout(gene)
    /\ gpc = "parse" => ENABLED GeneParse

\* an Action byte whose five low bits exceed the number of Actions
C8_Witness ==
    /\ gpc = "parsed"
    /\ gene = 63
    /\ parsed.tag = "Action"
    /\ parsed.variant = "TurnLeft"

WellFormed(data) ==
    Len(data) = 8 /\ \A i \in 1..Len(data) : data[i] \in {"0", "1"}

\* C10: Gene::from_string returns an error for every text that is not
\* exactly eight characters, each '0' or '1'.
C10_RejectsMalformed ==
    (gpc \in {"decoded", "failed"} /\ ~WellFormed(text)) => gpc = "failed"

\* the tokens of a genome text, as data.split(' ') yields them
Tokens(data) == split(data, 1, <<>>)

HasMalformedToken(data) ==
    data # <<>> /\ \E i \in 1..Len(Tokens(data)) : ~WellFormed(Tokens(data)[i])

\* C11: when a genome text holds a token that is not eight binary digits,
\* Agent::from_string returns an error and builds no agent.
C11_FormatErrorPropagates ==
    (HasMalformedToken(text) /\ pc \in {"Ok", "Err"}) => pc = "Err"

\* the nearest integer to length * 0.15
RoundedShare(length) == (length * 15 + 50) \div 100

\* C12: on the point-mutation branch Genome::mutate applies
\* round(L * 0.15) single-gene mutations to a genome of length L, each at
\* an index drawn from 0..L-1, and leaves the length unchanged.
C12_PointMutationCount ==
    child.branch = "point" =>
        /\ Len(child.picks) = RoundedShare(Len(genome))
        /\ \A i \in 1..Len(child.picks) :
               child.picks[i][1] \in 0..(Len(genome) - 1)
        /\ Len(child.genome) = Len(genome)

\* C13: Genome::mutate, and so Agent::reproduce, returns a genome text for
\* every genome and every outcome of its draws, the empty genome included.
C13_MutateAlwaysReturns ==
    child.branch # "none" => (pc = "Ok" /\ child.branch # "panic")

BitOf(b, i) == (b \div (2 ^ i)) % 2

\* C14: for every byte b, the text of Gene(b) is its eight binary digits,
\* most significant first, and Gene::from_string of that text is Gene(b).
C14_TextRoundTrip ==
    /\ (orig >= 0 /\ gpc = "from_string") =>
           /\ Len(text) = 8
           /\ \A i \in 1..8 :
                  text[i] = IF BitOf(orig, 8 - i) = 1 THEN "1" ELSE "0"
    /\ (orig >= 0 /\ gpc \in {"decoded", "parsed"}) =>
           decoded.ok /\ decoded.val = orig /\ gene = orig
    /\ orig >= 0 => gpc # "failed"

\* a byte whose text needs the zero padding, read back
C14_Witness ==
    /\ orig = 5
    /\ gpc = "decoded"
    /\ text = <<"0", "0", "0", "0", "0", "1", "0", "1">>
    /\ gene = 5

\* the pruning step of Agent::new (lines 121-174) applied to a graph
prune_nodes_of(g) == retain_nodes(g, retain_loop(g, 1, <<>>), node_count(g))

prune_step(g) == prune_nodes_of(prune_edges_loop(g, 1))

\* C15: the pruning step run a second time, on a graph Agent::new already
\* pruned, removes no node and no edge.
C15_PruneIdempotent ==
    Built =>
        /\ node_count(prune_step(brain)) = node_count(brain)
        /\ edge_count(prune_step(brain)) = edge_count(brain)

\* C16: Agent::new on the empty gene sequence succeeds with a graph of zero
\* nodes and zero edges, and every Agent::process on it returns None.
C16_EmptyGenome ==
    (genome = <<>> /\ pc \notin {"from_string", "new"}) =>
        /\ pc # "Err"
        /\ node_count(brain) = 0
        /\ edge_count(brain) = 0
        /\ result # "Unset" => result = None

\* the agent of the empty genome, evaluated with an agent on the tile ahead
C16_Witness ==
    /\ genome = <<>>
    /\ pc = "Ok"
    /\ result = None
    /\ sense.visible_tiles[1] = 1

\* C17: Agent::process and Agent::reproduce leave the agent as it was built:
\* no step taken on a built agent changes its genome or its brain graph.
C17_AgentUnchanged ==
    [][pc = "Ok" => (genome' = genome /\ brain' = brain)]_vars

\* an agent that was evaluated and has reproduced, with a child genome that
\* differs from its own
C17_Witness ==
    /\ pc = "Ok"
    /\ result # "Unset"
    /\ child.branch \in {"push", "remove", "point"}
    /\ child.genome # genome
    /\ node_count(brain) > 0

DiffBits(a, b) == {i \in 0..7 : BitOf(a, i) # BitOf(b, i)}

\* C18: Gene::mutate changes the byte in exactly one bit position of 0..7,
\* and each of the eight positions is a possible outcome for every byte.
C18_FlipsOneBit ==
    /\ gpc = "mutated" =>
           gene \in 0..255 /\ Cardinality(DiffBits(gene, orig)) = 1
    /\ gpc = "parse" =>
           \A i \in 0..7 : ENABLED (GeneMutate /\ DiffBits(gene', gene) = {i})

\* the top bit of 255 cleared
C18_Witness ==
    /\ gpc = "mutated"
    /\ orig = 255
    /\ gene = 127

IsNodeByte(b) == b < 128
IsConnByte(b) == b >= 128

\* the non-Connection genes and the Connection genes, in genome order
NodeBytes(gs) == SelectSeq(gs, IsNodeByte)
ConnBytes(gs) == SelectSeq(gs, IsConnByte)

NodeIs(node, p) ==
    node.kind = p.tag /\ node.variant = p.variant /\ node.bias = p.bias

\* the graph the node bytes ns and the Connection bytes cs ask for
WiredAs(g, ns, cs) ==
    /\ node_count(g) = Len(ns)
    /\ \A i \in 1..Len(ns) : NodeIs(g.nodes[i], Layout(ns[i]))
    /\ edge_count(g) = Len(cs) \div 2
    /\ \A j \in 1..(Len(cs) \div 2) :
          /\ g.edges[j].node = <<((cs[2 * j - 1] % 64) % Len(ns)) + 1,
                                 ((cs[2 * j] % 64) % Len(ns)) + 1>>
          /\ g.edges[j].weight = (BitOf(cs[2 * j - 1], 6) = 1)

\* C19: before pruning, a genome with n >= 1 non-Connection genes and k
\* Connection genes gives n nodes, node i decoding the i-th non-Connection
\* gene, and floor(k/2) edges, the j-th from (a.index mod n) to
\* (b.index mod n) with a's inverted flag, for the j-th pair (a, b).
C19_WiredGraph ==
    (pc = "prune_edges" /\ NodeGeneCount(genome) >= 1) =>
        WiredAs(brain, NodeBytes(genome), ConnBytes(genome))

\* three Connection genes: one pair whose second gene is inverted, and an
\* unpaired last one
C19_Witness ==
    /\ pc = "prune_edges"
    /\ NodeGeneCount(genome) = 2
    /\ ConnBytes(genome) = <<128, 193, 129>>
    /\ edge_count(brain) = 1
    /\ brain.edges[1].weight = FALSE

\* the values folded into node n during one call, as they were accumulated
Folded(log, n) == {j \in 1..Len(log) : log[j].n = n}

RECURSIVE SumFolded(_, _, _)
SumFolded(log, n, j) ==
    IF j > Len(log) THEN RZero
    ELSE RAdd(IF log[j].n = n THEN log[j].used ELSE RZero,
              SumFolded(log, n, j + 1))

BiasOf(node) == IF node.kind = "Internal" THEN node.bias ELSE ROne

MeanTimesBias(node, count, sum) ==
    IF count = 0
    THEN (IF node.kind = "Internal" THEN Some(node.bias) ELSE NoVal)
    ELSE Some(RMul(RDivInt(sum, count), BiasOf(node)))

\* C20: a node expanded by process_node returns (sum / count) * bias over
\* the values its incoming neighbours yielded, with bias the stored bias of
\* an Internal node and 1 for an Action node; with no value yielded it
\* returns the bias for an Internal node and None for an Action node; a
\* Sense node returns the sense input of its kind.
C20_MeanTimesBias ==
    Evaluated =>
        \A i \in 1..Len(eval.calls) :
            /\ \A d \in 1..Len(eval.calls[i].done) :
                  /\ ~IsKind(brain, eval.calls[i].done[d].n, "Sense")
                  /\ eval.calls[i].done[d].val =
                         MeanTimesBias(
                             brain.nodes[eval.calls[i].done[d].n],
                             Cardinality(Folded(eval.calls[i].log,
                                                eval.calls[i].done[d].n)),
                             SumFolded(eval.calls[i].log,
                                       eval.calls[i].done[d].n, 1))
            /\ \A j \in 1..Len(eval.calls[i].log) :
                  /\ \E e \in InEdges(brain, eval.calls[i].log[j].n) :
                         brain.edges[e].node[1] = eval.calls[i].log[j].r
                  /\ IsKind(brain, eval.calls[i].log[j].r, "Sense") =>
                         eval.calls[i].log[j].raw =
                             Sense_get(sense,
                                 brain.nodes[eval.calls[i].log[j].r].variant)

\* an Action node that averaged two values, one of them coming through an
\* Internal node that scaled a Sense reading of 1 by its bias
C20_Witness ==
    /\ Evaluated
    /\ \E i \in 1..Len(eval.calls) :
          /\ Cardinality(Folded(eval.calls[i].log, eval.calls[i].index)) = 2
          /\ eval.calls[i].weight.some
          /\ \E d \in 1..Len(eval.calls[i].done) :
                /\ IsKind(brain, eval.calls[i].done[d].n, "Internal")
                /\ Folded(eval.calls[i].log, eval.calls[i].done[d].n) # {}
          /\ \E j \in 1..Len(eval.calls[i].log) :
                /\ IsKind(brain, eval.calls[i].log[j].r, "Sense")
                /\ eval.calls[i].log[j].raw = ROne

\* C21: whenever process_node expands a node other than the root Action,
\* the last element of history at that moment is the node whose fold called
\* process_node on it, for every incoming neighbour of that node and not
\* only the first one visited.
C21_LastIsParent ==
    Evaluated =>
        \A i \in 1..Len(eval.calls) :
            \A j \in 1..Len(eval.calls[i].expanded) :
                eval.calls[i].expanded[j].parent # 0 =>
                    eval.calls[i].expanded[j].last =
                        eval.calls[i].expanded[j].parent

\* C22: during the evaluation of one Action node, history answers only for
\* nodes of the path being walked: a node met again along another path is
\* not answered from history (it is resolved through its own incoming
\* edges again).
C22_GuardsCurrentPathOnly ==
    Evaluated =>
        \A i \in 1..Len(eval.calls) :
            \A j \in 1..Len(eval.calls[i].hits) :
                eval.calls[i].hits[j].onpath

\* the calls of process_node, during call i of line 195, on a node that was
\* already in history
Hits(i) == 1..Len(eval.calls[i].hits)

\* C23: a call of process_node on a node that is already in history returns
\* exactly the stored bias if the node is Internal, with or without incoming
\* edges, and no value if it is an Action; no node is expanded a second
\* time, and an Internal node wired to itself folds its own bias for the
\* self-loop input.
C23_RevisitReturnsBias ==
    Evaluated =>
        \A i \in 1..Len(eval.calls) :
            /\ \A j \in Hits(i) :
                  /\ contains(eval.calls[i].history, eval.calls[i].hits[j].n)
                  /\ IsKind(brain, eval.calls[i].hits[j].n, "Internal") =>
                         eval.calls[i].hits[j].val =
                             Some(brain.nodes[eval.calls[i].hits[j].n].bias)
                  /\ IsKind(brain, eval.calls[i].hits[j].n, "Action") =>
                         eval.calls[i].hits[j].val = NoVal
                  /\ ~IsKind(brain, eval.calls[i].hits[j].n, "Sense")
            /\ \A j, k \in 1..Len(eval.calls[i].expanded) :
                  eval.calls[i].expanded[j].n = eval.calls[i].expanded[k].n
                      => j = k
            /\ \A j \in 1..Len(eval.calls[i].log) :
                  eval.calls[i].log[j].n = eval.calls[i].log[j].r =>
                      /\ IsKind(brain, eval.calls[i].log[j].n, "Internal")
                      /\ eval.calls[i].log[j].raw =
                             brain.nodes[eval.calls[i].log[j].n].bias

\* an evaluation in which an Internal node wired to itself was met again
\* and folded its own bias, and one in which an Action node was met again
C23_Witness ==
    /\ Evaluated
    /\ \E i \in 1..Len(eval.calls) :
          /\ \E j \in 1..Len(eval.calls[i].log) :
                eval.calls[i].log[j].n = eval.calls[i].log[j].r
          /\ \E j \in Hits(i) :
                /\ IsKind(brain, eval.calls[i].hits[j].n, "Internal")
                /\ InEdges(brain, eval.calls[i].hits[j].n) # {}

\* C24: for every genome on which Agent::new succeeds and every sense input,
\* every Action node of the pruned brain resolves to a defined weight, so
\* Agent::process returns an action if and only if the pruned brain has at
\* least one Action node.
C24_SomeIffActionNode ==
    Evaluated =>
        /\ DefinedActions(brain, sense) = ActionNodes(brain)
        /\ result # None <=> ActionNodes(brain) # {}

\* C25: a failed brain construction is retried with a fresh genome both
\* when seeding and when accepting an offspring: when seeding ends every
\* slot holds a valid agent, and a reproduction ends with a child agent
\* placed at the child's coordinate, also when the child's genome was
\* invalid.
C25_RetriedUntilPlaced ==
    /\ wpc = "seeded" =>
          /\ Cardinality(DOMAIN tiles) = MaxAgents
          /\ \A c \in DOMAIN tiles :
                /\ tiles[c].kind = "Agent"
                /\ new_outcome(decode_loop(tiles[c].genome, 1,
                                           EmptyGraph, <<>>)) = "Ok"
    /\ (last.op = "birth" /\ last.reproduced) =>
          /\ last.child_coord \in DOMAIN tiles
          /\ tiles[last.child_coord].kind = "Agent"

\* C28: in Simulation::step every agent that reproduces has its fitness
\* reset to REPRODUCTION_THRESHOLD - 1.
C28_FitnessResetBelowThreshold ==
    (last.op = "birth" /\ last.reproduced) =>
        tiles[last.coord].fitness = REPRODUCTION_THRESHOLD - 1

\* C30: after any sequence of Agent::acted calls the history holds at most
\* HISTORY_SIZE actions, the most recent one at position 0.
C30_HistoryBounded ==
    last.op = "acted" =>
        /\ Len(agent.history) <= HISTORY_SIZE
        /\ agent.history[1] = last.action

\* C27: TileMap::walk never puts the moved tile onto a coordinate that
\* holds another tile: after walk every other tile is still in the map, and
\* the map holds as many tiles as before.
C27_WalkKeepsOtherTiles ==
    last.op = "walk" =>
        /\ Cardinality(DOMAIN tiles) = Cardinality(DOMAIN last.before)
        /\ \A k \in (DOMAIN last.before) \ {last.from} :
              k \in DOMAIN tiles /\ tiles[k] = last.before[k]

\* C29: for every Coord inside the grid and every Offset of distance -1, 0
\* or +1 on either axis, Coord::apply_offset leaves the coordinate inside
\* the grid, wrapped around at the edges, also on non-square grids.
C29_OffsetWrapsInsideGrid ==
    last.op = "apply_offset" =>
        /\ coord \in Cells(dimensions)
        /\ coord = IF last.offset.axis = "X"
                   THEN <<(last.from[1] + last.offset.d) % dimensions[1],
                          last.from[2]>>
                   ELSE <<last.from[1],
                          (last.from[2] + last.offset.d) % dimensions[2]>>

\* C26: the food diffusion at the start of Universe::update ends from every
\* reachable world, also when a Food tile holding more than 4 units has
\* agents on all four neighbours, and when it has ended no Food tile holds
\* more than 4 units.
C26_DiffusionEnds ==
    /\ (wpc = "topple") ~> (wpc = "toppled")
    /\ [](wpc = "toppled" => ~invalid(tiles))

=============================================================================
